---- MODULE Spec2Model ----
(***************************************************************************)
(* Model of event-generator/event_generator.py: the EventGenerator class   *)
(* (connection with bounded retry, the production loop run by a background *)
(* thread, start/stop) together with the module-level configuration.       *)
(* The caller is one thread issuing start() and stop() calls one after the *)
(* other; every successful start() launches one production-loop thread.    *)
(* The broker client (KafkaProducer: constructor, send, flush, close) is   *)
(* external: each call's outcome is a nondeterministic success or failure. *)
(***************************************************************************)
EXTENDS Integers, Sequences, FiniteSets, TLC

\* ------------------------------------------------------------------ bounds
\* A loop begins a producing tick only while event_count < MaxTicks.
MaxTicks == 101
\* A send or flush failure is injected only while the loop's stored failure
\* counts sum to less than the cap: MaxFail with one live destination,
\* MaxFailFanout with several.
MaxFail == 11
MaxFailFanout == 3
\* Number of start() calls the caller makes under SpecCalls, and the tick cap there.
MaxStarts == 2
MaxTicksCalls == 1

\* ------------------------------------------------------- program constants
max_retries == 5
retry_delay == 3
LogEvery == 10
FlushEvery == 100

\* Rates are multiples of 1/RateScale events per second; the loop's floor on
\* the rate, 0.001, is Epsilon of these units.  Durations are exact fractions
\* num/den of a second.
RateScale == 10000
Epsilon == RateScale \div 1000

None == "None"
Shared == "shared"

VARIABLES
    TEAM_KAFKA_MAPPING,  \* configured tenant ids, in configuration order
    SINGLE_BOOTSTRAP,    \* TRUE iff a shared endpoint is configured
    EVENT_STREAMS,       \* configured stream types
    REGIONS,             \* configured regions
    EXPLICIT_TOPIC,      \* os.getenv('TOPIC'): None or a string
    TOPIC_PREFIX,        \* topic name prefix
    TOPIC_SUFFIX,        \* topic name suffix
    EVENT_RATE_PER_SEC,  \* configured rate, in units of 1/RateScale events per second
    RATE_PER_TEAM,       \* the per-destination rate flag
    producers,           \* self.producers: sequence of [team, h] in insertion order
    running,             \* self.running
    handles,             \* every KafkaProducer created: [team, closed]
    cpc,                 \* caller: "idle" | "connect" | "stop"
    call,                \* caller's locals and the record of its calls
    th,                  \* production-loop threads: locals, the current tick's
                         \* sends and flushes, and sendFails, flushFails (history:
                         \* failures of each kind since the last successful send)
    obs,                 \* history: loops launched, sends performed, ...
    probe                \* the last direct call of a helper function and its result

vars == <<TEAM_KAFKA_MAPPING, SINGLE_BOOTSTRAP, EVENT_STREAMS, REGIONS, EXPLICIT_TOPIC,
          TOPIC_PREFIX, TOPIC_SUFFIX, EVENT_RATE_PER_SEC, RATE_PER_TEAM, producers,
          running, handles, cpc, call, th, obs, probe>>
config == <<TEAM_KAFKA_MAPPING, SINGLE_BOOTSTRAP, EVENT_STREAMS, REGIONS, EXPLICIT_TOPIC,
            TOPIC_PREFIX, TOPIC_SUFFIX, EVENT_RATE_PER_SEC, RATE_PER_TEAM>>

Threads == 1..MaxStarts

\* ------------------------------------------------------------ dict helpers
Keys(ps) == [k \in 1..Len(ps) |-> ps[k].team]
KeySet(ps) == {ps[k].team : k \in 1..Len(ps)}
Range(s) == {s[k] : k \in 1..Len(s)}

\* self.producers[team_id] = producer  (an existing key keeps its position)
DictSet(ps, team, h) ==
    IF team \in KeySet(ps)
    THEN [k \in 1..Len(ps) |-> IF ps[k].team = team THEN [team |-> team, h |-> h] ELSE ps[k]]
    ELSE Append(ps, [team |-> team, h |-> h])

\* failed_sends.get(team_id, 0)
FailCount(fs, team) == IF team \in DOMAIN fs THEN fs[team] ELSE 0

\* Mutant: a failure stores 1 whatever the count was.
IncrFailOnce(fs, team) ==
    [x \in (DOMAIN fs) \cup {team} |-> IF x = team THEN 1 ELSE fs[x]]

\* failed_sends[team_id] = failed_sends.get(team_id, 0) + 1
IncrFail(fs, team) ==
    [x \in (DOMAIN fs) \cup {team} |-> IF x = team THEN FailCount(fs, team) + 1 ELSE fs[x]]

\* Mutant: a success that leaves the stored count in place.
ResetOnSuccessKept(fs, team) == fs

\* if team_id in failed_sends: del failed_sends[team_id]
ResetOnSuccess(fs, team) == [x \in (DOMAIN fs) \ {team} |-> fs[x]]

\* History of a destination's failures since its last successful send: one
\* more, and none.
Tally(m, team) ==
    [x \in (DOMAIN m) \cup {team} |-> IF x = team /\ x \in DOMAIN m THEN m[x] + 1
                                      ELSE IF x = team THEN 1 ELSE m[x]]
Untally(m, team) == [x \in (DOMAIN m) \ {team} |-> m[x]]

RECURSIVE SumOver(_, _)
SumOver(fs, S) ==
    IF S = {} THEN 0
    ELSE LET x == CHOOSE y \in S : TRUE IN fs[x] + SumOver(fs, S \ {x})
SumFail(fs) == SumOver(fs, DOMAIN fs)

EmptyMap == [x \in {} |-> 0]

\* ----------------------------------------------------------- configuration
\* Mutant: the shared endpoint is attempted after the tenants.
DestinationsWithShared ==
    IF SINGLE_BOOTSTRAP THEN Append(TEAM_KAFKA_MAPPING, Shared)
    ELSE TEAM_KAFKA_MAPPING

\* The destinations connect_all_kafka attempts: the tenant mapping if there is
\* one, else the shared endpoint if there is one, else nothing.
Destinations ==
    IF TEAM_KAFKA_MAPPING # <<>> THEN TEAM_KAFKA_MAPPING
    ELSE IF SINGLE_BOOTSTRAP THEN <<Shared>>
    ELSE <<>>

NoInterval == [num |-> 0, den |-> 1]

NoEst ==
    [team |-> None, attempts |-> 0, sleeps |-> 0, slept |-> 0, warns |-> <<>>,
     errors |-> 0, result |-> None]

NoEvent ==
    [type |-> None, id |-> 0, patient_id |-> "", visit_id |-> "", station_id |-> ""]

NoOp ==
    [op |-> None, team |-> None, ok |-> FALSE, logged |-> FALSE, reset |-> FALSE,
     prevFlush |-> 0]

NewCall ==
    [targets |-> <<>>, ci |-> 1, attempt |-> 0, success_count |-> 0,
     est |-> NoEst, establishLog |-> <<>>, established |-> <<>>,
     connRet |-> None, startRet |-> None, last |-> None,
     si |-> 1, stopCloses |-> <<>>, closeRaised |-> FALSE,
     startsLeft |-> 0]

IdleThread ==
    [pc |-> "idle", event_count |-> 0, failed_sends |-> EmptyMap, i |-> 1,
     iterLen |-> 0, stream_type |-> None, event |-> NoEvent, tickSends |-> <<>>, tickFlushes |-> <<>>,
     flushOk |-> <<>>,
     lastOp |-> NoOp, lastPause |-> None, failedLog |-> None, afterStop |-> FALSE,
     flushFails |-> EmptyMap, sendFails |-> EmptyMap, sleep_interval |-> NoInterval]

NoKey == [present |-> FALSE, utf8 |-> ""]

NoProbe ==
    [fn |-> None, team |-> None, topic |-> None, event |-> NoEvent, keys |-> <<>>]

NewObs ==
    [launched |-> 0, everSent |-> FALSE, setTrue |-> 0, stoppedRunning |-> FALSE]

\* TEAM_BOOTSTRAP_SERVERS, KAFKA_BOOTSTRAP_SERVERS, EVENT_RATE_PER_SEC and
\* RATE_PER_TEAM as deployed: 10 events per second (the default) with and
\* without the per-team flag, and a rate of 0.0005 events per second.
Deployments ==
    {[mapping |-> <<>>, single |-> FALSE, rate |-> 10 * RateScale, per_team |-> FALSE],
     [mapping |-> <<>>, single |-> TRUE, rate |-> 10 * RateScale, per_team |-> FALSE],
     [mapping |-> <<"alpha">>, single |-> FALSE, rate |-> 5, per_team |-> TRUE],
     [mapping |-> <<"alpha", "beta">>, single |-> TRUE, rate |-> 10 * RateScale,
      per_team |-> TRUE]}

StreamConfigs ==
    {<<>>, <<"clinic_visit", "environmental_conditions", "lab_result">>}

RegionConfigs ==
    {<<>>, <<"Boston">>}

\* A generator object right after __init__.
NewGenerator(starts) ==
    /\ producers = <<>>
    /\ running = FALSE
    /\ handles = <<>>
    /\ cpc = "idle"
    /\ call = [NewCall EXCEPT !.startsLeft = starts]
    /\ th = [t \in Threads |-> IdleThread]
    /\ obs = NewObs
    /\ probe = NoProbe

\* The default topic naming: TOPIC unset, TOPIC_PREFIX and TOPIC_SUFFIX defaults.
InitWith(starts) ==
    /\ \E d \in Deployments :
          /\ TEAM_KAFKA_MAPPING = d.mapping
          /\ SINGLE_BOOTSTRAP = d.single
          /\ EVENT_RATE_PER_SEC = d.rate
          /\ RATE_PER_TEAM = d.per_team
    /\ EVENT_STREAMS \in StreamConfigs
    /\ REGIONS \in RegionConfigs
    /\ EXPLICIT_TOPIC = None
    /\ TOPIC_PREFIX = "events.team"
    /\ TOPIC_SUFFIX = ".raw"
    /\ NewGenerator(starts)

\* main(): one generator, one start() call.
Init == InitWith(1)

\* --------------------------------------------------------- start / connect
\* Mutant: a start that is content with zero connections.
ConnectAllReturnAlways(success_count) == success_count >= 0

\* connect_all_kafka's return value in multi-team mode (single mode agrees).
ConnectAllReturn(success_count) == success_count > 0

\* Mutant: an off-by-one retry test, which sleeps after the last attempt too.
RetryAgainOffByOne(attempt) == attempt < max_retries

\* connect_kafka_for_team: "if attempt < max_retries - 1" sleeps and retries.
RetryAgain(attempt) == attempt < max_retries - 1

\* Mutant: a failed destination ends the whole startup sequence.
NextAfterSkipAbort(ci, n) == n + 1

\* connect_all_kafka: the next destination after one that failed to connect.
NextAfterSkip(ci, n) == ci + 1

\* start() called: connect_all_kafka begins; with nothing configured it returns
\* False at once and so does start().
StartCall ==
    /\ cpc = "idle"
    /\ call.startsLeft > 0
    /\ IF Destinations = <<>>
       THEN /\ call' = [call EXCEPT !.startsLeft = @ - 1, !.targets = <<>>,
                           !.success_count = 0, !.establishLog = <<>>,
                           !.established = <<>>, !.est = NoEst,
                           !.connRet = "False", !.startRet = None, !.last = "start"]
            /\ cpc' = "connected"
       ELSE /\ call' = [call EXCEPT !.startsLeft = @ - 1, !.targets = Destinations,
                           !.ci = 1, !.attempt = 0, !.success_count = 0,
                           !.establishLog = <<>>, !.established = <<>>, !.est = NoEst,
                           !.connRet = None, !.startRet = None, !.last = "start"]
            /\ cpc' = "connect"
    /\ UNCHANGED <<config, probe, producers, running, handles, th, obs>>

\* One iteration of connect_kafka_for_team's retry loop for the current
\* destination; on return (handle or None) connect_all_kafka's loop body runs.
ConnectAttempt(ok) ==
    /\ cpc = "connect"
    /\ call.ci <= Len(call.targets)
    /\ LET team == call.targets[call.ci]
           est0 == IF call.attempt = 0
                   THEN [team |-> team, attempts |-> 0, sleeps |-> 0, slept |-> 0,
                         warns |-> <<>>, errors |-> 0, result |-> "pending"]
                   ELSE call.est
           log1 == IF call.attempt = 0 THEN Append(call.establishLog, team)
                   ELSE call.establishLog
       IN IF ~(call.attempt < max_retries)
          THEN \* range(max_retries) is exhausted: the function falls off its end
               /\ ok
               /\ UNCHANGED <<handles, producers>>
               /\ call' = [call EXCEPT
                      !.est = [est0 EXCEPT !.result = "none"],
                      !.ci = NextAfterSkip(call.ci, Len(call.targets)), !.attempt = 0]
          ELSE IF ok
          THEN /\ handles' = Append(handles, [team |-> team, closed |-> FALSE])
               /\ producers' = DictSet(producers, team, Len(handles) + 1)
               /\ call' = [call EXCEPT
                      !.est = [est0 EXCEPT !.attempts = @ + 1, !.result = "handle"],
                      !.establishLog = log1,
                      !.established = Append(@, team),
                      !.success_count = @ + 1,
                      !.ci = @ + 1, !.attempt = 0]
          ELSE /\ UNCHANGED <<handles, producers>>
               /\ IF RetryAgain(call.attempt)
                  THEN call' = [call EXCEPT
                      !.est = [est0 EXCEPT !.attempts = @ + 1,
                                           !.warns = Append(@, call.attempt + 1),
                                           !.sleeps = @ + 1,
                                           !.slept = @ + retry_delay],
                      !.establishLog = log1,
                      !.attempt = @ + 1]
                  ELSE call' = [call EXCEPT
                      !.est = [est0 EXCEPT !.attempts = @ + 1,
                                           !.warns = Append(@, call.attempt + 1),
                                           !.errors = @ + 1,
                                           !.result = "none"],
                      !.establishLog = log1,
                      !.ci = NextAfterSkip(call.ci, Len(call.targets)), !.attempt = 0]
    /\ UNCHANGED <<config, probe, running, cpc, th, obs>>

Max(a, b) == IF a >= b THEN a ELSE b

\* Mutant: with the flag set the rate is taken per live destination.
SleepIntervalPerTeam(rate, per_team, n) ==
    LET effective_rate == IF per_team /\ n > 0 THEN rate * n ELSE rate
    IN [num |-> RateScale, den |-> Max(effective_rate, Epsilon)]

\* sleep_interval = 1.0 / max(effective_rate, 0.001), where the RATE_PER_TEAM
\* branch assigns the same rate again.
SleepInterval(rate, per_team, n) ==
    LET effective_rate == IF per_team /\ n > 0 THEN rate ELSE rate
    IN [num |-> RateScale, den |-> Max(effective_rate, Epsilon)]

\* produce_events up to its while loop.
LaunchedThread ==
    [IdleThread EXCEPT !.pc = "top",
                       !.sleep_interval = SleepInterval(EVENT_RATE_PER_SEC, RATE_PER_TEAM,
                                                        Len(producers))]

\* connect_all_kafka's loop is over: it logs the counts and returns.
ConnectAllFinish ==
    /\ cpc = "connect"
    /\ call.ci > Len(call.targets)
    /\ cpc' = "connected"
    /\ call' = [call EXCEPT !.connRet = IF ConnectAllReturn(call.success_count)
                                        THEN "True" ELSE "False"]
    /\ UNCHANGED <<config, probe, producers, running, handles, th, obs>>

\* start() after connect_all_kafka: it fails, or sets running and launches the loop.
StartFinish ==
    /\ cpc = "connected"
    /\ cpc' = "idle"
    /\ IF call.connRet # "True"
       THEN /\ call' = [call EXCEPT !.startRet = "False", !.est = NoEst, !.targets = <<>>,
                                    !.establishLog = <<>>, !.established = <<>>,
                                    !.success_count = 0, !.ci = 1, !.connRet = None]
            /\ UNCHANGED <<running, th, obs>>
       ELSE /\ call' = [call EXCEPT !.startRet = "True", !.est = NoEst, !.targets = <<>>,
                                    !.establishLog = <<>>, !.established = <<>>,
                                    !.success_count = 0, !.ci = 1, !.connRet = None]
            /\ running' = TRUE
            /\ th' = [th EXCEPT ![obs.launched + 1] = LaunchedThread]
            /\ obs' = [obs EXCEPT !.launched = @ + 1, !.setTrue = @ + 1]
    /\ UNCHANGED <<config, probe, producers, handles>>

\* -------------------------------------------------------------------- stop
\* Mutant: stop() leaves the flag as it is.
StopFlagKept == running

\* The value stop() stores in self.running.
StopFlag == FALSE

LoopAlive(t) == th[t].pc \notin {"idle", "done"}

\* stop() called: clears the flag and starts closing the producers.
StopCall ==
    /\ cpc = "idle"
    /\ running' = StopFlag
    /\ call' = [call EXCEPT !.si = 1, !.stopCloses = <<>>, !.closeRaised = FALSE,
                            !.last = "stop"]
    /\ cpc' = IF producers = <<>> THEN "idle" ELSE "stop"
    /\ obs' = [obs EXCEPT !.stoppedRunning = @ \/ \E t \in Threads : LoopAlive(t)]
    /\ UNCHANGED <<config, probe, producers, handles, th>>

\* Mutant: a close() that raises ends stop()'s loop.
NextAfterCloseErrorAbort(si, n) == n + 1

\* stop(): the next producer after one whose close() raised.
NextAfterCloseError(si, n) == si + 1

\* stop(): producer.close() for the next producer; after the last one stop() returns.
StopClose(ok) ==
    /\ cpc = "stop"
    /\ call.si <= Len(producers)
    /\ LET h == producers[call.si].h
           nxt == IF ok THEN call.si + 1 ELSE NextAfterCloseError(call.si, Len(producers))
       IN /\ handles' = [handles EXCEPT ![h].closed = TRUE]
          /\ call' = [call EXCEPT !.si = nxt,
                                  !.stopCloses = Append(@, h),
                                  !.closeRaised = @ \/ ~ok]
          /\ cpc' = IF nxt > Len(producers) THEN "idle" ELSE "stop"
    /\ UNCHANGED <<config, probe, producers, running, th, obs>>

\* ---------------------------------------------------------- event synthesis
KnownStreams == {"symptom_report", "clinic_visit", "environmental_conditions"}

\* Every generator calls random.choice(REGIONS), which raises on an empty list.
GeneratorRaises(stream_type) == stream_type \in KnownStreams /\ REGIONS = <<>>

\* generate_event(stream_type): the event, or None for an unknown stream type.
generate_event(stream_type, id) ==
    IF stream_type = "symptom_report"
    THEN [type |-> stream_type, id |-> id, patient_id |-> "P", visit_id |-> "", station_id |-> ""]
    ELSE IF stream_type = "clinic_visit"
    THEN [type |-> stream_type, id |-> id, patient_id |-> "P", visit_id |-> "V", station_id |-> ""]
    ELSE IF stream_type = "environmental_conditions"
    THEN [type |-> stream_type, id |-> id, patient_id |-> "", visit_id |-> "", station_id |-> "S"]
    ELSE NoEvent

\* Mutant: the visit id is preferred over the patient id.
KeyFieldVisitFirst(event) ==
    IF event.visit_id # "" THEN event.visit_id
    ELSE IF event.patient_id # "" THEN event.patient_id
    ELSE IF event.station_id # "" THEN event.station_id
    ELSE None

\* A field the event lacks reads as "", which "or" skips like None.
\* key_field = event.get('patient_id') or event.get('visit_id') or event.get('station_id')
KeyField(event) ==
    IF event.patient_id # "" THEN event.patient_id
    ELSE IF event.visit_id # "" THEN event.visit_id
    ELSE IF event.station_id # "" THEN event.station_id
    ELSE None

\* key_bytes = str(key_field).encode('utf-8') if key_field else None
KeyBytes(key_field) ==
    IF key_field # None /\ key_field # "" THEN [present |-> TRUE, utf8 |-> key_field]
    ELSE NoKey

\* ------------------------------------------------------------- topic naming
\* Python truth value of an optional string: None and "" are false.
Truthy(str) == str # None /\ str # ""

\* Mutant: the shared sentinel is named like any tenant.
topic_for_team_NoSentinel(team_id) ==
    IF Truthy(EXPLICIT_TOPIC) THEN EXPLICIT_TOPIC
    ELSE TOPIC_PREFIX \o team_id \o TOPIC_SUFFIX

\* _topic_for_team(team_id)
topic_for_team(team_id) ==
    IF Truthy(EXPLICIT_TOPIC) THEN EXPLICIT_TOPIC
    ELSE IF team_id = "shared" THEN TOPIC_PREFIX \o TOPIC_SUFFIX
    ELSE TOPIC_PREFIX \o team_id \o TOPIC_SUFFIX

\* ---------------------------------------------------------- production loop
\* Bound on the failures the broker client is made to raise.
FailCap == IF Len(producers) > 1 THEN MaxFailFanout ELSE MaxFail

\* while self.running
LoopCondition == running

\* Mutant: the log fires on every 10th failure (10, 20, ...).
ShouldLogTenth(count) == count % LogEvery = 0

\* if failed_sends[team_id] % 10 == 1
ShouldLog(count) == count % LogEvery = 1

\* if event_count % 100 == 0
FlushDue(event_count) == event_count % FlushEvery = 0

\* Mutant: no handler around the iteration, an error ends the thread.
ExceptTargetExit == "done"

\* Where the loop goes when an iteration raises: the handler pauses, then the
\* while condition is evaluated again.
ExceptTarget == "except"

\* Mutant: a send failure ends the tick's fan-out.
NextAfterSendErrorBreak(i, n) == n + 1

\* The destination visited after one whose send raised.
NextAfterSendError(i, n) == i + 1

\* Mutant: a flush failure ends the tick's flush loop.
NextAfterFlushErrorBreak(i, n) == n + 1

\* The destination visited after one whose flush raised.
NextAfterFlushError(i, n) == i + 1

\* The event handed to producer.send for the i-th destination of a tick.
EventFor(event, i) == event

\* Mutant: a destination whose send raised is dropped from the live set.
ProducersAfterSendErrorDrop(ps, i) == SubSeq(ps, 1, i - 1) \o SubSeq(ps, i + 1, Len(ps))

\* self.producers after a send to its i-th entry raised.
ProducersAfterSendError(ps, i) == ps

\* Mutant: a tick without an event goes straight to the next iteration.
SkipTargetContinue == "top"

\* Where a tick goes when generate_event returned None: "if event:" is skipped
\* and the iteration ends with time.sleep(sleep_interval).
SkipTarget == "sleep"

\* Mutant: the map is logged at every checkpoint.
FailedSendsTruthyAlways(fs) == TRUE

\* if failed_sends: a dict is true iff it has an entry.
FailedSendsTruthy(fs) == DOMAIN fs # {}

\* The 100-event checkpoint after the flushes: stats, then "if failed_sends" the map.
Checkpoint(thr) ==
    [thr EXCEPT !.pc = "sleep",
                !.failedLog = IF FailedSendsTruthy(thr.failed_sends) THEN "logged"
                              ELSE "quiet"]

\* After the send loop: event_count += 1, then the flush loop when it is due.
AfterFanout(thr) ==
    LET n == thr.event_count + 1
        counted == [thr EXCEPT !.event_count = n]
    IN IF FlushDue(n)
       THEN IF producers = <<>> THEN Checkpoint(counted)
            ELSE [counted EXCEPT !.pc = "flush", !.i = 1, !.iterLen = Len(producers)]
       ELSE [counted EXCEPT !.pc = "sleep"]

\* An event was generated: metadata is attached and the send loop begins.
TickStart(thr, ev) ==
    LET base == [thr EXCEPT !.event = ev, !.afterStop = obs.stoppedRunning]
    IN IF producers = <<>> THEN AfterFanout(base)
       ELSE [base EXCEPT !.pc = "send", !.i = 1, !.iterLen = Len(producers)]

\* Top of an iteration: the while condition, random.choice(EVENT_STREAMS) and
\* generate_event.
LoopTop(t, cap) ==
    /\ th[t].pc = "top"
    /\ IF ~LoopCondition
       THEN th' = [th EXCEPT ![t].pc = "done"]
       ELSE IF EVENT_STREAMS = <<>>
       THEN th' = [th EXCEPT ![t].pc = ExceptTarget]
       ELSE \E stream_type \in Range(EVENT_STREAMS) :
              LET thr == [th[t] EXCEPT !.stream_type = stream_type]
              IN IF GeneratorRaises(stream_type)
                 THEN th' = [th EXCEPT ![t] = [thr EXCEPT !.pc = ExceptTarget]]
                 ELSE LET ev == generate_event(stream_type, th[t].event_count + 1)
                      IN IF ev.type = None
                         THEN th' = [th EXCEPT ![t] = [thr EXCEPT !.pc = SkipTarget]]
                         ELSE /\ th[t].event_count < cap
                              /\ th' = [th EXCEPT ![t] = TickStart(thr, ev)]
    /\ UNCHANGED <<config, probe, producers, running, handles, cpc, call, obs>>

\* One pass of "for team_id, producer in self.producers.items()": producer.send
\* and its success or failure bookkeeping, then the iterator's next().
LoopSend(t, ok) ==
    /\ th[t].pc = "send"
    /\ IF Len(producers) # th[t].iterLen
       THEN \* dictionary changed size during iteration
            /\ ok
            /\ th' = [th EXCEPT ![t].pc = ExceptTarget]
            /\ UNCHANGED <<producers, obs>>
       ELSE LET thr == th[t]
                team == producers[thr.i].team
                h == producers[thr.i].h
                fs == IF ok THEN ResetOnSuccess(thr.failed_sends, team)
                      ELSE IncrFail(thr.failed_sends, team)
                nxt == IF ok THEN thr.i + 1 ELSE NextAfterSendError(thr.i, thr.iterLen)
                sent == [thr EXCEPT
                           !.failed_sends = fs,
                           !.tickSends = Append(@, [team |-> team, h |-> h,
                                                    topic |-> topic_for_team(team),
                                                    event |-> EventFor(thr.event, thr.i),
                                                    key |-> KeyBytes(KeyField(thr.event)),
                                                    ok |-> ok]),
                           !.flushFails = IF ok THEN Untally(@, team) ELSE @,
                           !.sendFails = IF ok THEN Untally(@, team) ELSE Tally(@, team),
                           !.lastOp = [op |-> "send", team |-> team, ok |-> ok,
                                       logged |-> ~ok /\ ShouldLog(fs[team]),
                                       reset |-> ok /\ team \in DOMAIN thr.failed_sends,
                                       prevFlush |-> FailCount(thr.flushFails, team)],
                           !.i = nxt]
            IN /\ ok \/ SumFail(thr.failed_sends) < FailCap
               /\ th' = [th EXCEPT ![t] = IF nxt > thr.iterLen THEN AfterFanout(sent) ELSE sent]
               /\ producers' = IF ok THEN producers ELSE ProducersAfterSendError(producers, thr.i)
               /\ obs' = [obs EXCEPT !.everSent = TRUE]
    /\ UNCHANGED <<config, probe, running, handles, cpc, call>>

\* One pass of the flush loop: producer.flush(timeout=5); a failure is logged
\* and counted; after the last producer the checkpoint logs follow.
LoopFlush(t, ok) ==
    /\ th[t].pc = "flush"
    /\ IF Len(producers) # th[t].iterLen
       THEN /\ ok
            /\ th' = [th EXCEPT ![t].pc = ExceptTarget]
       ELSE LET thr == th[t]
                team == producers[thr.i].team
                h == producers[thr.i].h
                fs == IF ok THEN thr.failed_sends ELSE IncrFail(thr.failed_sends, team)
                nxt == IF ok THEN thr.i + 1 ELSE NextAfterFlushError(thr.i, thr.iterLen)
                flushed == [thr EXCEPT
                              !.failed_sends = fs,
                              !.tickFlushes = Append(@, team),
                              !.flushOk = Append(@, ok),
                              !.flushFails = IF ok THEN @ ELSE Tally(@, team),
                              !.lastOp = [op |-> "flush", team |-> team, ok |-> ok,
                                          logged |-> FALSE, reset |-> FALSE,
                                          prevFlush |-> FailCount(thr.flushFails, team)],
                              !.i = nxt]
            IN /\ ok \/ SumFail(thr.failed_sends) < FailCap
               /\ th' = [th EXCEPT ![t] = IF nxt > thr.iterLen THEN Checkpoint(flushed)
                                          ELSE flushed]
    /\ UNCHANGED <<config, probe, producers, running, handles, cpc, call, obs>>

\* time.sleep(sleep_interval) at the end of an iteration.
LoopSleep(t) ==
    /\ th[t].pc = "sleep"
    /\ th' = [th EXCEPT ![t] = [@ EXCEPT !.pc = "top", !.stream_type = None,
                                         !.event = NoEvent, !.tickSends = <<>>,
                                         !.tickFlushes = <<>>, !.flushOk = <<>>,
                                         !.lastOp = NoOp,
                                         !.failedLog = None, !.lastPause = "interval"]]
    /\ UNCHANGED <<config, probe, producers, running, handles, cpc, call, obs>>

\* except Exception: the error is logged, then time.sleep(1).
LoopExcept(t) ==
    /\ th[t].pc = "except"
    /\ th' = [th EXCEPT ![t] = [@ EXCEPT !.pc = "top", !.stream_type = None,
                                         !.event = NoEvent, !.tickSends = <<>>,
                                         !.tickFlushes = <<>>, !.flushOk = <<>>,
                                         !.lastOp = NoOp,
                                         !.failedLog = None, !.lastPause = "1s"]]
    /\ UNCHANGED <<config, probe, producers, running, handles, cpc, call, obs>>

\* ------------------------------------------------------------ specifications
Caller ==
    \/ StartCall
    \/ \E ok \in BOOLEAN : ConnectAttempt(ok)
    \/ ConnectAllFinish
    \/ StartFinish
    \/ StopCall
    \/ \E ok \in BOOLEAN : StopClose(ok)

Loop(t) ==
    \/ LoopTop(t, MaxTicks)
    \/ \E ok \in BOOLEAN : LoopSend(t, ok)
    \/ \E ok \in BOOLEAN : LoopFlush(t, ok)
    \/ LoopSleep(t)
    \/ LoopExcept(t)

Next == Caller \/ \E t \in Threads : Loop(t)

Spec == Init /\ [][Next]_vars

\* The loop thread is scheduled: each of its steps is eventually taken.
FairSpec == Spec /\ \A t \in Threads : WF_vars(Loop(t))

\* The class used by a caller that makes up to MaxStarts start() calls; runs
\* are kept shorter than a flush checkpoint.
InitCalls == InitWith(MaxStarts)

LoopCalls(t) ==
    \/ LoopTop(t, MaxTicksCalls)
    \/ \E ok \in BOOLEAN : LoopSend(t, ok)
    \/ LoopSleep(t)
    \/ LoopExcept(t)

NextCalls == Caller \/ \E t \in Threads : LoopCalls(t)

SpecCalls == InitCalls /\ [][NextCalls]_vars

\* The helper functions called directly, under any topic configuration, on a
\* generator that has not been started.
TopicConfigs == {None, "", "custom.topic"}
PrefixConfigs == {"events.team", "", "t-"}
SuffixConfigs == {".raw", "", "-x"}
TeamIds == {"shared", "acme", "alpha", "beta"}
FieldValues(v) == {"", v}
Events ==
    [type : {"record"}, id : {1}, patient_id : FieldValues("P1"),
     visit_id : FieldValues("V1"), station_id : FieldValues("S1")]
MaxFanout == 2

InitUnits ==
    /\ TEAM_KAFKA_MAPPING = <<>>
    /\ SINGLE_BOOTSTRAP = FALSE
    /\ EVENT_STREAMS = <<>>
    /\ REGIONS = <<>>
    /\ EXPLICIT_TOPIC \in TopicConfigs
    /\ TOPIC_PREFIX \in PrefixConfigs
    /\ TOPIC_SUFFIX \in SuffixConfigs
    /\ EVENT_RATE_PER_SEC = 10 * RateScale
    /\ RATE_PER_TEAM = FALSE
    /\ NewGenerator(0)

\* A call of _topic_for_team(team_id).
TopicCall(team_id) ==
    /\ probe' = [NoProbe EXCEPT !.fn = "topic", !.team = team_id,
                                !.topic = topic_for_team(team_id)]
    /\ UNCHANGED <<config, producers, running, handles, cpc, call, th, obs>>

\* The key computation of the send loop, once per destination, for an event.
KeyCall(event, n) ==
    /\ probe' = [NoProbe EXCEPT !.fn = "key", !.event = event,
                                !.keys = [k \in 1..n |-> KeyBytes(KeyField(event))]]
    /\ UNCHANGED <<config, producers, running, handles, cpc, call, th, obs>>

NextUnits ==
    \/ \E team_id \in TeamIds : TopicCall(team_id)
    \/ \E event \in Events, n \in 1..MaxFanout : KeyCall(event, n)

SpecUnits == InitUnits /\ [][NextUnits]_vars

\* ------------------------------------------------------------------ claims
HandlesOf(ps) == [k \in 1..Len(ps) |-> ps[k].h]

\* C1: while no destination has connected (every establish failed, or nothing
\* is configured) start() does not return success, the running flag is false,
\* no production loop has been launched and no send has been performed.
C1_NoDestinationNoStart ==
    producers = <<>> =>
        /\ call.startRet \in {None, "False"}
        /\ (cpc = "idle" /\ call.startsLeft = 0 => call.startRet = "False")
        /\ ~running
        /\ obs.launched = 0
        /\ \A t \in Threads : th[t].pc = "idle"
        /\ ~obs.everSent

\* start() has returned failure although destinations were configured.
C1_Witness ==
    /\ Destinations # <<>>
    /\ cpc = "idle"
    /\ call.startRet = "False"
    /\ producers = <<>>

C2_Safety ==
    /\ \A t \in Threads : ~th[t].afterStop
    /\ (cpc = "idle" /\ call.last = "stop") =>
          /\ call.stopCloses = HandlesOf(producers)
          /\ \A k \in 1..Len(producers) : handles[producers[k].h].closed

\* C2: after stop() is called while the loop runs, no producing tick begins
\* any more, the loop terminates, and when stop() has returned close() has
\* been invoked on every live handle.
C2_StopEndsLoop ==
    /\ []C2_Safety
    /\ (obs.stoppedRunning ~> \A t \in Threads : ~LoopAlive(t))

\* stop() was called mid-run and has returned; the loop has exited.
C2_Witness ==
    /\ obs.stoppedRunning
    /\ cpc = "idle" /\ call.last = "stop"
    /\ Len(producers) = 2
    /\ th[1].pc = "done"
    /\ th[1].event_count > 0

\* C3: when a tick that produced an event reaches the flush or the pacing
\* sleep, exactly one send of that event was attempted on every live
\* destination, in order, whichever sends failed.
C3_FanOutComplete ==
    \A t \in Threads :
        (th[t].pc \in {"sleep", "flush"} /\ th[t].event.type # None) =>
            /\ Len(th[t].tickSends) = Len(producers)
            /\ \A k \in 1..Len(producers) :
                  /\ th[t].tickSends[k].team = producers[k].team
                  /\ th[t].tickSends[k].h = producers[k].h
                  /\ th[t].tickSends[k].event = th[t].event

\* The first tick, with the send to alpha failed and the send to beta done.
C3_Witness ==
    /\ th[1].pc = "sleep"
    /\ th[1].event_count = 1
    /\ Keys(producers) = <<"alpha", "beta">>
    /\ DOMAIN th[1].failed_sends = {"alpha"}
    /\ Len(th[1].tickSends) = 2

\* C4: an establish makes at most 5 attempts, stops at the first success,
\* fails iff all 5 attempts failed, sleeps 3 seconds only after failed attempts
\* 1 to 4, warns with the attempt number at every failed attempt and logs the
\* exhaustion error exactly once.
C4_BoundedRetry ==
    LET e == call.est
        failed == Len(e.warns)
    IN e.result # None =>
        /\ e.attempts <= max_retries
        /\ \A k \in 1..failed : e.warns[k] = k
        /\ e.slept = retry_delay * e.sleeps
        /\ e.result = "pending" =>
              /\ e.attempts = failed /\ failed = call.attempt
              /\ failed < max_retries
              /\ e.sleeps = failed /\ e.errors = 0
        /\ e.result = "handle" =>
              /\ e.attempts = failed + 1
              /\ e.sleeps = failed /\ e.errors = 0
        /\ e.result = "none" =>
              /\ e.attempts = max_retries /\ failed = max_retries
              /\ e.sleeps = max_retries - 1 /\ e.errors = 1

\* An establish that gave up after its fifth attempt.
C4_Witness ==
    /\ call.est.result = "none"
    /\ call.est.attempts = 5
    /\ call.est.slept = 12

\* C5: when connect_all_kafka returns, establish was called once per
\* configured destination in configuration order, the live set is exactly the
\* destinations whose establish succeeded, and the result is success iff that
\* set is not empty.
C5_EstablishAll ==
    cpc = "connected" =>
        /\ call.establishLog = Destinations
        /\ Keys(producers) = call.established
        /\ \A k \in 1..Len(producers) : handles[producers[k].h].team = producers[k].team
        /\ (call.connRet = "True") <=> (producers # <<>>)
        /\ call.connRet \in {"True", "False"}

\* connect_all_kafka returns with alpha exhausted and beta connected.
C5_Witness ==
    /\ cpc = "connected"
    /\ call.targets = <<"alpha", "beta">>
    /\ call.established = <<"beta">>
    /\ call.connRet = "True"

C6_Step ==
    \A t \in Threads :
        /\ (th[t].pc # "done" /\ th'[t].pc = "done") => (th[t].pc = "top" /\ ~running)
        /\ (th[t].pc = "top" /\ running /\ th'[t] # th[t]) =>
              /\ EVENT_STREAMS = <<>> => th'[t].pc = "except"
              /\ REGIONS = <<>> =>
                    /\ th'[t].pc \in {"except", "sleep"}
                    /\ th'[t].event = NoEvent
        /\ (th[t].pc = "except" /\ th'[t] # th[t]) =>
              (th'[t].pc = "top" /\ th'[t].lastPause = "1s")

\* C6: the loop exits only from the top of an iteration that finds running
\* false; an iteration that raises (picking a stream type, synthesizing) goes
\* to the handler, which pauses 1 second and returns to the top of the loop.
C6_LoopSurvivesErrors == [][C6_Step]_vars

\* The loop is back at the top, still running, after the handler's pause.
C6_Witness ==
    /\ running
    /\ th[1].pc = "top"
    /\ th[1].lastPause = "1s"

\* C7: right after a successful send to a destination its failure counter
\* has no entry (count 0), whatever send and flush failures it held.
C7_ResetOnSuccess ==
    \A t \in Threads :
        (th[t].lastOp.op = "send" /\ th[t].lastOp.ok) =>
            /\ th[t].lastOp.team \notin DOMAIN th[t].failed_sends
            /\ FailCount(th[t].failed_sends, th[t].lastOp.team) = 0

\* A successful send that removed a count holding a flush failure.
C7_Witness ==
    /\ th[1].lastOp.op = "send"
    /\ th[1].lastOp.ok
    /\ th[1].lastOp.reset
    /\ th[1].lastOp.prevFlush > 0

\* C8 as stated: whenever a failure (of a send or of a flush) brings a
\* destination's counter to a value, the rate-limited log fires iff that
\* value mod 10 = 1.
C8_LogOnEveryCountMod10 ==
    \A t \in Threads :
        (th[t].lastOp.op \in {"send", "flush"} /\ ~th[t].lastOp.ok) =>
            (th[t].lastOp.logged <=>
                FailCount(th[t].failed_sends, th[t].lastOp.team) % 10 = 1)

\* C8, amended: the rate-limited log fires exactly on the send failures that
\* bring the counter to a value with mod 10 = 1; a success and a flush
\* failure never fire it.
C8_LogOnSendFailureMod10 ==
    \A t \in Threads :
        LET o == th[t].lastOp
            n == FailCount(th[t].failed_sends, o.team)
        IN /\ (o.op = "send" /\ ~o.ok) => (o.logged <=> n % 10 = 1)
           /\ (o.op = "send" /\ ~o.ok) => n >= 1
           /\ (o.op # "send" \/ o.ok) => ~o.logged

\* The 11th consecutive failure of a destination, a send failure, is logged.
C8_Witness ==
    /\ th[1].lastOp.op = "send"
    /\ th[1].lastOp.logged
    /\ FailCount(th[1].failed_sends, th[1].lastOp.team) = 11

\* C9 as stated: running is set at most once and at most one production loop
\* is ever launched, so never two loops at a time.
C9_SingleCycle ==
    /\ obs.setTrue <= 1
    /\ obs.launched <= 1
    /\ Cardinality({t \in Threads : LoopAlive(t)}) <= 1

C10_Sends ==
    \A t \in Threads :
        /\ \A k \in 1..Len(th[t].tickSends) :
              /\ th[t].tickSends[k].team \in KeySet(producers)
              /\ th[t].tickSends[k].h \in Range(HandlesOf(producers))
        /\ \A k \in 1..Len(th[t].tickFlushes) : th[t].tickFlushes[k] \in KeySet(producers)
        /\ KeySet(producers) \subseteq Range(Destinations)

C10_Step ==
    (call.startsLeft = 0 /\ cpc # "connect") =>
        /\ producers' = producers
        /\ Len(handles') = Len(handles)

\* C10: sends and flushes go only to destinations established at startup, and
\* once connect_all_kafka has returned the live set never changes and no
\* connection is attempted again.
C10_LiveSetFixed == []C10_Sends /\ [][C10_Step]_vars

\* alpha failed to connect; beta has had a send failure and a flush failure
\* counted and is still the one live destination.
C10_Witness ==
    /\ TEAM_KAFKA_MAPPING = <<"alpha", "beta">>
    /\ Keys(producers) = <<"beta">>
    /\ th[1].lastOp.op = "flush" /\ ~th[1].lastOp.ok
    /\ FailCount(th[1].failed_sends, "beta") = 2

C11_Counts ==
    \A t \in Threads :
        LET thr == th[t]
            due == thr.event_count > 0 /\ thr.event_count % 100 = 0
        IN /\ thr.pc = "send" => thr.event_count = thr.event.id - 1
           /\ (thr.pc \in {"flush", "sleep"} /\ thr.event.type # None) =>
                 thr.event_count = thr.event.id
           /\ thr.pc = "flush" => due
           /\ thr.pc = "sleep" =>
                 thr.tickFlushes = IF thr.event.type # None /\ due THEN Keys(producers)
                                   ELSE <<>>

C11_Step ==
    \A t \in Threads :
        /\ th'[t].event_count # th[t].event_count =>
              /\ th'[t].event_count = th[t].event_count + 1
              /\ th[t].pc = "send" /\ th'[t].pc \in {"flush", "sleep"}
              /\ Len(th'[t].tickSends) = Len(producers)
        /\ Len(th'[t].tickFlushes) > Len(th[t].tickFlushes) =>
              LET o == th'[t].lastOp
              IN /\ o.op = "flush"
                 /\ th'[t].tickFlushes = Append(th[t].tickFlushes, o.team)
                 /\ FailCount(th'[t].failed_sends, o.team) =
                       FailCount(th[t].failed_sends, o.team) + (IF o.ok THEN 0 ELSE 1)
                 /\ \A x \in KeySet(producers) \ {o.team} :
                       FailCount(th'[t].failed_sends, x) = FailCount(th[t].failed_sends, x)

\* C11: event_count rises by exactly 1 at the end of the send loop of every
\* tick that produced an event, whichever sends failed, and at no other step;
\* every live destination is flushed, in order, exactly in the ticks that bring
\* event_count to a positive multiple of 100; a flush failure adds exactly 1 to
\* that destination's count and the remaining destinations are still flushed.
C11_CountAndFlush == []C11_Counts /\ [][C11_Step]_vars

\* Tick 100 is over: alpha's flush failed and was counted, beta was flushed.
C11_Witness ==
    /\ th[1].pc = "sleep"
    /\ th[1].event_count = 100
    /\ th[1].tickFlushes = <<"alpha", "beta">>
    /\ FailCount(th[1].flushFails, "alpha") = 1
    /\ FailCount(th[1].failed_sends, "alpha") = 1

\* C12: a stop() call closes the live handles one by one in order, each
\* exactly once, whichever close() calls raise; when it returns every live
\* handle has had its close() call.
C12_CloseEachOnce ==
    /\ cpc = "stop" =>
          /\ call.si <= Len(producers)
          /\ call.stopCloses = SubSeq(HandlesOf(producers), 1, call.si - 1)
    /\ (cpc = "idle" /\ call.last = "stop") =>
          /\ call.stopCloses = HandlesOf(producers)
          /\ \A h \in 1..Len(handles) :
                Cardinality({k \in 1..Len(call.stopCloses) : call.stopCloses[k] = h}) =
                   IF h \in Range(HandlesOf(producers)) THEN 1 ELSE 0
          /\ \A k \in 1..Len(producers) : handles[producers[k].h].closed

\* stop() has returned after closing two handles, a close() having raised.
C12_Witness ==
    /\ cpc = "idle" /\ call.last = "stop"
    /\ call.closeRaised
    /\ Len(call.stopCloses) = 2

\* C13: with a non-empty TOPIC every destination resolves to it; otherwise
\* the shared sentinel resolves to prefix + suffix and any other tenant id t
\* to prefix + t + suffix; with the default prefix and suffix, acme resolves
\* to events.teamacme.raw and the sentinel to events.team.raw.
C13_TopicResolution ==
    probe.fn = "topic" =>
        /\ EXPLICIT_TOPIC = "custom.topic" => probe.topic = "custom.topic"
        /\ EXPLICIT_TOPIC \in {None, ""} =>
              /\ probe.team = Shared => probe.topic = TOPIC_PREFIX \o TOPIC_SUFFIX
              /\ probe.team # Shared =>
                    probe.topic = TOPIC_PREFIX \o probe.team \o TOPIC_SUFFIX
              /\ Len(probe.topic) = Len(TOPIC_PREFIX) + Len(TOPIC_SUFFIX) +
                                    (IF probe.team = Shared THEN 0 ELSE Len(probe.team))
              /\ (TOPIC_PREFIX = "events.team" /\ TOPIC_SUFFIX = ".raw") =>
                    /\ probe.team = "acme" => probe.topic = "events.teamacme.raw"
                    /\ probe.team = Shared => probe.topic = "events.team.raw"

\* The sentinel resolved under the default naming, no override.
C13_Witness ==
    /\ probe.fn = "topic"
    /\ probe.team = Shared
    /\ EXPLICIT_TOPIC = None
    /\ probe.topic = "events.team.raw"

\* C14 as stated: for every configured rate r > 0 the loop's sleep interval
\* is 1/r.
C14_IntervalIsInverseRate ==
    \A t \in Threads :
        (LoopAlive(t) /\ EVENT_RATE_PER_SEC > 0) =>
            th[t].sleep_interval.num * EVENT_RATE_PER_SEC =
                th[t].sleep_interval.den * RateScale

C14_Interval ==
    \A t \in Threads :
        LoopAlive(t) =>
            LET si == th[t].sleep_interval
            IN /\ si.den > 0
               /\ EVENT_RATE_PER_SEC >= Epsilon =>
                     si.num * EVENT_RATE_PER_SEC = si.den * RateScale
               /\ EVENT_RATE_PER_SEC < Epsilon => si.num = 1000 * si.den

C14_Step ==
    \A t \in Threads :
        /\ LoopAlive(t) => th'[t].sleep_interval = th[t].sleep_interval
        /\ (th[t].pc = "sleep" /\ th'[t] # th[t]) => th'[t].lastPause = "interval"

\* C14, amended: the sleep interval is 1/r for every configured rate
\* r >= 0.001 and 1000 seconds for a smaller rate; the loop has it from before
\* its first tick, it never changes during the run, and it depends neither on
\* the number of live destinations nor on the per-destination flag.
C14_IntervalFromFlooredRate == []C14_Interval /\ [][C14_Step]_vars

\* A loop configured with 0.0005 events per second has slept its interval:
\* 1000 seconds, not 2000.
C14_Witness ==
    /\ EVENT_RATE_PER_SEC = 5
    /\ th[1].pc = "top"
    /\ th[1].lastPause = "interval"
    /\ th[1].sleep_interval.num = 1000 * th[1].sleep_interval.den

C15_Skipped ==
    \A t \in Threads :
        (th[t].stream_type # None /\ th[t].stream_type \notin KnownStreams) =>
            /\ th[t].pc = "sleep"
            /\ th[t].event = NoEvent
            /\ th[t].tickSends = <<>> /\ th[t].tickFlushes = <<>>
            /\ th[t].lastOp = NoOp /\ th[t].failedLog = None

C15_Step ==
    \A t \in Threads :
        LET unknown(thr) == thr.stream_type # None /\ thr.stream_type \notin KnownStreams
        IN /\ (unknown(th'[t]) \/ unknown(th[t])) =>
                 /\ th'[t].event_count = th[t].event_count
                 /\ th'[t].failed_sends = th[t].failed_sends
                 /\ th'[t].sleep_interval = th[t].sleep_interval
           /\ (unknown(th[t]) /\ th'[t] # th[t]) =>
                 /\ th'[t].pc = "top"
                 /\ th'[t].lastPause = "interval"

\* C15: a tick whose stream type generate_event does not recognize has no
\* event, performs no send and no flush, leaves event_count and failed_sends
\* as they were, and ends with the sleep of sleep_interval.
C15_NoneTickOnlyPaces == []C15_Skipped /\ [][C15_Step]_vars

\* After a failed send in tick 1, a tick drew lab_result and is at its sleep.
C15_Witness ==
    /\ th[1].stream_type = "lab_result"
    /\ th[1].pc = "sleep"
    /\ th[1].event_count = 1
    /\ DOMAIN th[1].failed_sends # {}

\* C16: the key of a send is the first non-empty value among the event's
\* patient_id, visit_id and station_id, in that order, and there is no key
\* when all three are missing or empty; every destination of the fan-out gets
\* the same key.
C16_PartitionKey ==
    probe.fn = "key" =>
        LET e == probe.event
            cands == <<e.patient_id, e.visit_id, e.station_id>>
            I == {k \in 1..3 : cands[k] # ""}
        IN \A k \in 1..Len(probe.keys) :
              /\ probe.keys[k] = probe.keys[1]
              /\ I = {} => probe.keys[k] = NoKey
              /\ I # {} =>
                    /\ probe.keys[k].present
                    /\ probe.keys[k].utf8 = cands[CHOOSE m \in I : \A j \in I : m <= j]

\* An event without patient_id, keyed by its visit_id for both destinations.
C16_Witness ==
    /\ probe.fn = "key"
    /\ probe.event.patient_id = "" /\ probe.event.visit_id = "V1"
    /\ probe.event.station_id = "S1"
    /\ Len(probe.keys) = 2
    /\ probe.keys[2] = [present |-> TRUE, utf8 |-> "V1"]

\* C17: a tick ends with a checkpoint exactly when it produced an event that
\* brought event_count to a multiple of 100; at a checkpoint the failure map
\* is logged iff some destination has a nonzero count after the tick's sends
\* and flushes, and a destination whose send and flush both succeeded in that
\* tick has no entry in it.
C17_CheckpointLog ==
    \A t \in Threads :
        LET thr == th[t]
        IN /\ thr.pc = "sleep" =>
                 (thr.failedLog # None <=>
                     (thr.event.type # None /\ thr.event_count % 100 = 0))
           /\ thr.pc # "sleep" => thr.failedLog = None
           /\ thr.failedLog # None =>
                 /\ thr.failedLog = "logged" <=>
                       \E d \in KeySet(producers) : FailCount(thr.failed_sends, d) # 0
                 /\ Len(thr.flushOk) = Len(producers)
                 /\ \A k \in 1..Len(producers) :
                       (thr.tickSends[k].ok /\ thr.flushOk[k]) =>
                           producers[k].team \notin DOMAIN thr.failed_sends

\* Checkpoint 100: alpha's send and flush succeeded and it has no entry, beta
\* has one, and the map was logged.
C17_Witness ==
    /\ th[1].failedLog = "logged"
    /\ Keys(producers) = <<"alpha", "beta">>
    /\ th[1].tickSends[1].ok /\ th[1].flushOk[1]
    /\ DOMAIN th[1].failed_sends = {"beta"}

C18_Step ==
    \A t \in Threads :
        /\ Len(th'[t].tickSends) > Len(th[t].tickSends) =>
              ~handles[producers[th[t].i].h].closed
        /\ Len(th'[t].tickFlushes) > Len(th[t].tickFlushes) =>
              ~handles[producers[th[t].i].h].closed

\* C18 as stated: whatever the interleaving of stop() with the loop, no
\* producer.send and no producer.flush is invoked on a handle that stop() has
\* already closed.
C18_NoUseAfterClose == [][C18_Step]_vars

\* C19: failed_sends has entries only for live destinations, never stores a
\* count below 1, and a destination's count is the number of its send
\* failures plus flush failures since its last successful send (since the loop
\* started if it never had one).
C19_FailureMap ==
    \A t \in Threads :
        LET fs == th[t].failed_sends
        IN /\ DOMAIN fs \subseteq KeySet(producers)
           /\ \A d \in DOMAIN fs : fs[d] >= 1
           /\ \A d \in KeySet(producers) :
                 FailCount(fs, d) =
                    FailCount(th[t].sendFails, d) + FailCount(th[t].flushFails, d)

\* beta holds two send failures and a flush failure, alpha nothing.
C19_Witness ==
    /\ Keys(producers) = <<"alpha", "beta">>
    /\ DOMAIN th[1].failed_sends = {"beta"}
    /\ th[1].failed_sends["beta"] = 3
    /\ FailCount(th[1].flushFails, "beta") = 1
    /\ FailCount(th[1].sendFails, "beta") = 2

\* C20: with both a tenant mapping and a shared endpoint configured, only the
\* tenants are attempted: no connection to the shared endpoint is attempted
\* or made, shared never enters self.producers, and when every tenant
\* connection fails connect_all_kafka and start() return False.
C20_TenantsOnly ==
    (TEAM_KAFKA_MAPPING # <<>> /\ SINGLE_BOOTSTRAP) =>
        /\ Shared \notin KeySet(producers)
        /\ \A h \in 1..Len(handles) : handles[h].team # Shared
        /\ Shared \notin Range(call.targets) \cup Range(call.establishLog)
        /\ call.est.team # Shared
        /\ (cpc = "connected" /\ producers = <<>>) =>
              /\ call.establishLog = TEAM_KAFKA_MAPPING
              /\ call.connRet = "False"
        /\ (cpc = "idle" /\ call.last = "start" /\ producers = <<>>) =>
              (call.startRet = "False" /\ ~running)

\* Every tenant connection failed with the shared endpoint configured:
\* connect_all_kafka returns False having attempted the tenants only.
C20_Witness ==
    /\ TEAM_KAFKA_MAPPING = <<"alpha", "beta">> /\ SINGLE_BOOTSTRAP
    /\ cpc = "connected"
    /\ call.establishLog = <<"alpha", "beta">>
    /\ producers = <<>>
    /\ call.connRet = "False"

====
